---- MODULE Spec2Model ----
(***************************************************************************)
(* Model of package runstats (src/expvar/expvar.go): Config resolution     *)
(* (Config.init), the start entry point RunCollector, the handle RunStats  *)
(* with its Logger setter and its publish callback onNewPoint, and the     *)
(* tick loop of the collector the callback is registered with.             *)
(*                                                                         *)
(* Durations are in milliseconds.  Strings are TLA+ strings, "" being the  *)
(* Go zero value.  Pointers are names of cells of `heap`; "nil" is the nil *)
(* pointer.                                                                *)
(***************************************************************************)
EXTENDS Integers, Sequences, FiniteSets, TLC

VARIABLES
    heap,         \* the Config objects: [Addrs -> Config]
    heap0,        \* heap at construction (history, never changed)
    arg,          \* the *Config the caller passes: "nil" or "caller"
    next,         \* the *Config the next resolution is applied to
    resolutions,  \* log of the calls of Config.init made so far
    pinged,       \* result of client.Ready in RunCollector: "none" | "ok" | "err"
    ret,          \* RunCollector: "pending" | "ok" | "error"
    handle,       \* the *RunStats returned, NoHandle when none
    coll,         \* the collector built by RunCollector, NoCollector when none
    workerPc,     \* the goroutine running the collector's loop
    ctxDone,      \* the context passed to RunCollector is cancelled
    atCancel,     \* history: ticker and write counters when ctx was cancelled
    fired,        \* intervals elapsed since the loop started
    tickBuf,      \* ticks waiting in the ticker's channel
    dropped,      \* ticks the ticker discarded because one was waiting
    stalledFor,   \* intervals elapsed during the publish call in flight
    taken,        \* ticks the loop has consumed
    writes,       \* sink write calls issued (WritePoint)
    inflight,     \* sink write calls issued and not yet returned
    failed,       \* sink write calls that returned with a failure
    printlns,     \* calls of Logger.Println made by the pipeline
    fatalns,      \* calls of Logger.Fatalln made by the pipeline
    lastPoint,    \* the point handed to the sink last, NoPoint when none
    held          \* the values the Measurement of the handle's Config has
                  \* held since the worker was started

confVars == <<heap, heap0, arg, next, resolutions>>
pipeVars == <<pinged, ret, handle, coll, workerPc, ctxDone, atCancel, fired, tickBuf,
              dropped, stalledFor, taken, writes, inflight, failed, printlns,
              fatalns, lastPoint, held>>
vars == <<heap, heap0, arg, next, resolutions, pinged, ret, handle, coll, workerPc,
          ctxDone, atCancel, fired, tickBuf, dropped, stalledFor, taken,
          writes, inflight, failed, printlns, fatalns, lastPoint, held>>

-----------------------------------------------------------------------------
(* Bounds *)

\* intervals the ticker is followed for
MaxTicks == 3
\* resolutions applied in a row to one config
MaxResolves == 2

-----------------------------------------------------------------------------
(* Constants of the package, lines 30-36 *)

defaultHost == "localhost:8086"
defaultMeasurement == "go.runtime"
defaultBucket == "go"
defaultOrg == "metrics"
\* 10 * time.Second, in milliseconds
defaultCollectionInterval == 10000

-----------------------------------------------------------------------------
(* Config, lines 41-72 *)

Addrs == {"DefaultConfig", "caller"}

\* the zero value Config{}; DefaultConfig = &Config{} (line 39)
ZeroConfig ==
    [Host |-> "", Token |-> "", Org |-> "", Bucket |-> "", Measurement |-> "",
     CollectionInterval |-> 0,
     DisableCpu |-> FALSE, DisableMem |-> FALSE, DisableGc |-> FALSE]

\* the configs a caller is followed with when only resolution is studied
AllConfigs ==
    [Host : {"", "influx:9999"}, Token : {"", "secret"}, Org : {"", "acme"},
     Bucket : {"", "prod"}, Measurement : {"", "app"},
     CollectionInterval : {-5, 0, 50},
     DisableCpu : BOOLEAN, DisableMem : BOOLEAN, DisableGc : BOOLEAN]

\* the configs a caller is followed with when the pipeline is run
RunConfigs ==
    [Host : {""}, Token : {""}, Org : {""},
     Bucket : {""}, Measurement : {"", "app"},
     CollectionInterval : {0, 50},
     DisableCpu : BOOLEAN, DisableMem : BOOLEAN, DisableGc : BOOLEAN]

\* what os.Hostname() can return (line 93)
HostnameResults == {[hn |-> "web1", err |-> FALSE], [hn |-> "", err |-> TRUE]}

\* a resolution that appends the host identity to a measurement name that
\* is already set
init_AlwaysSuffix(h, config, host) ==
    LET p  == IF config = "nil" THEN "DefaultConfig" ELSE config
        c0 == h[p]
        c1 == IF c0.Org = "" THEN [c0 EXCEPT !.Org = defaultOrg] ELSE c0
        c2 == IF c1.Bucket = "" THEN [c1 EXCEPT !.Bucket = defaultBucket] ELSE c1
        c3 == IF c2.Host = "" THEN [c2 EXCEPT !.Host = defaultHost] ELSE c2
        m  == IF c3.Measurement = "" THEN defaultMeasurement ELSE c3.Measurement
        c4 == IF host.err
              THEN [c3 EXCEPT !.Measurement = m \o ".unknown"]
              ELSE [c3 EXCEPT !.Measurement = m \o "." \o host.hn]
        c5 == IF c4.CollectionInterval = 0
              THEN [c4 EXCEPT !.CollectionInterval = defaultCollectionInterval]
              ELSE c4
    IN  [heap |-> [h EXCEPT ![p] = c5], config |-> p, err |-> "nil"]

\* a resolution that tests the organization where it should test the bucket
init_BucketFollowsOrg(h, config, host) ==
    LET p  == IF config = "nil" THEN "DefaultConfig" ELSE config
        c0 == h[p]
        c1 == IF c0.Org = "" THEN [c0 EXCEPT !.Org = defaultOrg] ELSE c0
        c2 == IF c0.Org = "" THEN [c1 EXCEPT !.Bucket = defaultBucket] ELSE c1
        c3 == IF c2.Host = "" THEN [c2 EXCEPT !.Host = defaultHost] ELSE c2
        c4 == IF c3.Measurement = ""
              THEN IF host.err
                   THEN [c3 EXCEPT !.Measurement = defaultMeasurement \o ".unknown"]
                   ELSE [c3 EXCEPT !.Measurement = defaultMeasurement \o "." \o host.hn]
              ELSE c3
        c5 == IF c4.CollectionInterval = 0
              THEN [c4 EXCEPT !.CollectionInterval = defaultCollectionInterval]
              ELSE c4
    IN  [heap |-> [h EXCEPT ![p] = c5], config |-> p, err |-> "nil"]

\* a resolution that sets the default interval whatever the caller chose
init_AlwaysDefaultInterval(h, config, host) ==
    LET p  == IF config = "nil" THEN "DefaultConfig" ELSE config
        c0 == h[p]
        c1 == IF c0.Org = "" THEN [c0 EXCEPT !.Org = defaultOrg] ELSE c0
        c2 == IF c1.Bucket = "" THEN [c1 EXCEPT !.Bucket = defaultBucket] ELSE c1
        c3 == IF c2.Host = "" THEN [c2 EXCEPT !.Host = defaultHost] ELSE c2
        c4 == IF c3.Measurement = ""
              THEN IF host.err
                   THEN [c3 EXCEPT !.Measurement = defaultMeasurement \o ".unknown"]
                   ELSE [c3 EXCEPT !.Measurement = defaultMeasurement \o "." \o host.hn]
              ELSE c3
        c5 == [c4 EXCEPT !.CollectionInterval = defaultCollectionInterval]
    IN  [heap |-> [h EXCEPT ![p] = c5], config |-> p, err |-> "nil"]

\* a resolution that gives up when the host identity cannot be looked up
init_FailOnHostname(h, config, host) ==
    LET p  == IF config = "nil" THEN "DefaultConfig" ELSE config
        c0 == h[p]
        c1 == IF c0.Org = "" THEN [c0 EXCEPT !.Org = defaultOrg] ELSE c0
        c2 == IF c1.Bucket = "" THEN [c1 EXCEPT !.Bucket = defaultBucket] ELSE c1
        c3 == IF c2.Host = "" THEN [c2 EXCEPT !.Host = defaultHost] ELSE c2
        c4 == IF c3.Measurement = "" /\ ~host.err
              THEN [c3 EXCEPT !.Measurement = defaultMeasurement \o "." \o host.hn]
              ELSE c3
    IN  IF c3.Measurement = "" /\ host.err
        THEN [heap |-> [h EXCEPT ![p] = c4], config |-> p, err |-> "hostname"]
        ELSE [heap |-> [h EXCEPT ![p] =
                          IF c4.CollectionInterval = 0
                          THEN [c4 EXCEPT !.CollectionInterval =
                                              defaultCollectionInterval]
                          ELSE c4],
              config |-> p, err |-> "nil"]

\* Config.init, lines 74-105: works on the object the pointer names, on
\* DefaultConfig when the pointer is nil; returns that pointer and a nil error
init(h, config, host) ==
    LET p  == IF config = "nil" THEN "DefaultConfig" ELSE config
        c0 == h[p]
        c1 == IF c0.Org = "" THEN [c0 EXCEPT !.Org = defaultOrg] ELSE c0
        c2 == IF c1.Bucket = "" THEN [c1 EXCEPT !.Bucket = defaultBucket] ELSE c1
        c3 == IF c2.Host = "" THEN [c2 EXCEPT !.Host = defaultHost] ELSE c2
        c4 == IF c3.Measurement = ""
              THEN IF host.err
                   THEN [c3 EXCEPT !.Measurement = defaultMeasurement \o ".unknown"]
                   ELSE [c3 EXCEPT !.Measurement = defaultMeasurement \o "." \o host.hn]
              ELSE c3
        c5 == IF c4.CollectionInterval = 0
              THEN [c4 EXCEPT !.CollectionInterval = defaultCollectionInterval]
              ELSE c4
    IN  [heap |-> [h EXCEPT ![p] = c5], config |-> p, err |-> "nil"]

\* one call of Config.init, as logged
Resolution(h, config, host) ==
    LET r == init(h, config, host)
    IN  [pre |-> h, in |-> config, host |-> host,
         post |-> r.heap, out |-> r.config, err |-> r.err]

-----------------------------------------------------------------------------
(* RunStats and RunCollector, lines 107-156 *)

NoHandle == [none |-> TRUE]
NoCollector == [none |-> TRUE]
NoPoint == [none |-> TRUE]

\* the loggers a caller can install (any implementation of the interface of
\* lines 158-161); "nil" is the unset field
Loggers == {"custom"}

\* the metric names of each group
GroupFields(g) ==
    CASE g = "cpu" -> {"cpu.count", "cpu.goroutines"}
      [] g = "mem" -> {"mem.alloc", "mem.heap.inuse"}
      [] g = "gc"  -> {"mem.gc.count", "mem.gc.pause"}

\* collector.New(callback): the collector before RunCollector sets its fields;
\* no stop signal is attached to it
collectorNew(callback) ==
    [fieldsFunc |-> callback, PauseDur |-> defaultCollectionInterval,
     EnableCPU |-> TRUE, EnableMem |-> TRUE, EnableGC |-> TRUE,
     stop |-> "none"]

\* a start that copies the Memory flag into the GC switch
started_GcFollowsMem(r) ==
    LET cfg == r.heap[r.config]
        c0  == collectorNew("onNewPoint")
    IN  [heap |-> r.heap, ret |-> "ok",
         handle |-> [logger |-> "nil",
                     client |-> [host |-> cfg.Host, token |-> cfg.Token],
                     config |-> r.config,
                     write |-> [org |-> cfg.Org, bucket |-> cfg.Bucket]],
         coll |-> [c0 EXCEPT !.PauseDur = cfg.CollectionInterval,
                             !.EnableCPU = ~cfg.DisableCpu,
                             !.EnableMem = ~cfg.DisableMem,
                             !.EnableGC = ~cfg.DisableMem],
         go |-> TRUE]

\* a start that leaves the Memory switch as collector.New made it
started_MemNotSet(r) ==
    LET cfg == r.heap[r.config]
        c0  == collectorNew("onNewPoint")
    IN  [heap |-> r.heap, ret |-> "ok",
         handle |-> [logger |-> "nil",
                     client |-> [host |-> cfg.Host, token |-> cfg.Token],
                     config |-> r.config,
                     write |-> [org |-> cfg.Org, bucket |-> cfg.Bucket]],
         coll |-> [c0 EXCEPT !.PauseDur = cfg.CollectionInterval,
                             !.EnableCPU = ~cfg.DisableCpu,
                             !.EnableGC = ~cfg.DisableGc],
         go |-> TRUE]

\* lines 126-136: the handle and the collector of a successful start
started(r) ==
    LET cfg == r.heap[r.config]
        c0  == collectorNew("onNewPoint")
    IN  [heap |-> r.heap, ret |-> "ok",
         handle |-> [logger |-> "nil",
                     client |-> [host |-> cfg.Host, token |-> cfg.Token],
                     config |-> r.config,
                     write |-> [org |-> cfg.Org, bucket |-> cfg.Bucket]],
         coll |-> [c0 EXCEPT !.PauseDur = cfg.CollectionInterval,
                             !.EnableCPU = ~cfg.DisableCpu,
                             !.EnableMem = ~cfg.DisableMem,
                             !.EnableGC = ~cfg.DisableGc],
         go |-> TRUE]

\* lines 110, 118, 123: return nil, err
notStarted(r) ==
    [heap |-> r.heap, ret |-> "error", handle |-> NoHandle,
     coll |-> NoCollector, go |-> FALSE]

\* a start that does not look at the result of client.Ready
RunCollector_NoReadyCheck(h, config, host, ready) ==
    LET r == init(h, config, host)
    IN  IF r.err # "nil" THEN notStarted(r) ELSE started(r)

\* RunCollector, lines 107-141; `ready` is whether client.Ready succeeds.
\* ctx is not a parameter here: the body never reads it.
RunCollectorResult(h, config, host, ready) ==
    LET r == init(h, config, host)
    IN  IF r.err # "nil" THEN notStarted(r)
        ELSE IF ~ready THEN notStarted(r)
        ELSE started(r)

\* the names a caller gives the Measurement field after the start
Renames == {"renamed"}

\* a string is two words, data pointer and length.  A read that races with
\* an assignment takes each word from some value the field has held:
\* the bytes of `data` cut or overrun to the length of `length`
Torn(data, length) ==
    IF Len(length) = Len(data) THEN data
    ELSE IF Len(length) < Len(data) THEN SubSeq(data, 1, Len(length))
    ELSE data \o "<beyond>"

\* what the worker can see of the heap when it reads r.config.Measurement:
\* the writes made before `go _collector.Run()` (line 138) are ordered
\* before its reads, later writes of the caller are not
WorkerViews ==
    {[heap EXCEPT ![handle.config].Measurement = Torn(d, l)] :
        d \in held, l \in held}

\* a point named after the package's DefaultConfig instead of r.config
NewPoint_FromDefault(r, h, fields) ==
    [measurement |-> h["DefaultConfig"].Measurement, fields |-> fields]

\* influxdb2.NewPoint(r.config.Measurement, fields.Tags(), fields.Values(), now)
NewPoint(r, h, fields) ==
    [measurement |-> h[r.config].Measurement, fields |-> fields]

\* what the callback does when the write it issued fails: nothing
NoReaction == [println |-> FALSE, fatalln |-> FALSE, retry |-> FALSE]

\* a callback that starts the write and does not wait for it
onNewPoint_Async(r, h, fields) ==
    [calls |-> <<NewPoint(r, h, fields)>>, wait |-> FALSE, onError |-> NoReaction]

\* a callback that reports a failed write as fatal
onNewPoint_Fatal(r, h, fields) ==
    [calls |-> <<NewPoint(r, h, fields)>>, wait |-> TRUE,
     onError |-> [println |-> FALSE, fatalln |-> TRUE, retry |-> FALSE]]

\* a callback that publishes nothing when no field was sampled
onNewPoint_SkipEmpty(r, h, fields) ==
    [calls |-> IF fields = {} THEN <<>> ELSE <<NewPoint(r, h, fields)>>,
     wait |-> TRUE, onError |-> NoReaction]

\* RunStats.onNewPoint, lines 154-156: one WritePoint call, made in the
\* callback itself; the outcome of the write and r.logger are not consulted
onNewPoint(r, h, fields) ==
    [calls |-> <<NewPoint(r, h, fields)>>, wait |-> TRUE, onError |-> NoReaction]

-----------------------------------------------------------------------------
(* The collector's loop *)

\* ticks the ticker's channel holds
TickerCap == 1

\* the field set of one sample: the union of the enabled groups' metric
\* names, GC only with Memory
collectStats(c) ==
    (IF c.EnableCPU THEN GroupFields("cpu") ELSE {})
    \cup (IF c.EnableMem THEN GroupFields("mem") ELSE {})
    \cup (IF c.EnableMem /\ c.EnableGC THEN GroupFields("gc") ELSE {})

\* the loop's stop signal is raised
stopRequested == coll.stop = "ctx" /\ ctxDone

\* the lifecycle state of the pipeline
State ==
    CASE ret = "pending" -> "Created"
      [] ret = "error" -> "Failed"
      [] workerPc \in {"waiting", "publishing"} -> "Running"
      [] OTHER -> "Stopped"

-----------------------------------------------------------------------------
(* Initial states *)

InitPipe ==
    /\ pinged = "none"
    /\ ret = "pending" /\ handle = NoHandle /\ coll = NoCollector
    /\ workerPc = "none" /\ ctxDone = FALSE
    /\ atCancel = [fired |-> 0, writes |-> 0]
    /\ fired = 0 /\ tickBuf = 0 /\ dropped = 0 /\ stalledFor = 0 /\ taken = 0
    /\ writes = 0 /\ inflight = 0 /\ failed = <<>> /\ printlns = 0
    /\ fatalns = 0 /\ lastPoint = NoPoint /\ held = {}

InitConf(Configs) ==
    /\ arg \in {"nil", "caller"}
    /\ \E c \in Configs :
          /\ arg = "nil" => c = ZeroConfig
          /\ heap = [a \in Addrs |-> IF a = "caller" THEN c ELSE ZeroConfig]
    /\ heap0 = heap
    /\ next = arg
    /\ resolutions = <<>>

Init == InitConf(RunConfigs) /\ InitPipe

InitConfig == InitConf(AllConfigs) /\ InitPipe

-----------------------------------------------------------------------------
(* Actions *)

\* Config.init applied to the pointer the previous resolution returned
Resolve ==
    /\ Len(resolutions) < MaxResolves
    /\ \E host \in HostnameResults :
          LET r == Resolution(heap, next, host)
          IN  /\ heap' = r.post
              /\ next' = r.out
              /\ resolutions' = Append(resolutions, r)
    /\ UNCHANGED <<heap0, arg>>
    /\ UNCHANGED pipeVars

\* the caller calls RunCollector(ctx, config)
RunCollector ==
    /\ ret = "pending"
    /\ \E host \in HostnameResults, ready \in BOOLEAN :
          LET res == RunCollectorResult(heap, arg, host, ready)
              r   == Resolution(heap, arg, host)
          IN  /\ heap' = res.heap
              /\ next' = r.out
              /\ resolutions' = Append(resolutions, r)
              /\ pinged' = IF r.err # "nil" THEN "none"
                            ELSE IF ready THEN "ok" ELSE "err"
              /\ ret' = res.ret
              /\ handle' = res.handle
              /\ coll' = res.coll
              /\ workerPc' = IF res.go THEN "waiting" ELSE "none"
              /\ held' = IF res.go
                          THEN {res.heap[res.handle.config].Measurement}
                          ELSE {}
    /\ UNCHANGED <<heap0, arg, ctxDone, atCancel, fired, tickBuf, dropped,
                   stalledFor, taken, writes, inflight, failed, printlns,
                   fatalns, lastPoint>>

\* the caller calls handle.Logger(log), lines 150-152
Logger ==
    /\ ret = "ok"
    /\ \E log \in Loggers :
          /\ handle.logger # log
          /\ handle' = [handle EXCEPT !.logger = log]
    /\ UNCHANGED confVars
    /\ UNCHANGED <<pinged, ret, coll, workerPc, ctxDone, atCancel, fired, tickBuf,
                   dropped, stalledFor, taken, writes, inflight, failed,
                   printlns, fatalns, lastPoint, held>>

\* the caller cancels the context it passed
Cancel ==
    /\ ~ctxDone
    /\ ctxDone' = TRUE
    /\ atCancel' = [fired |-> fired, writes |-> writes]
    /\ UNCHANGED confVars
    /\ UNCHANGED <<pinged, ret, handle, coll, workerPc, fired, tickBuf, dropped,
                   stalledFor, taken, writes, inflight, failed, printlns,
                   fatalns, lastPoint, held>>

\* the caller assigns the Measurement field of the Config the handle keeps,
\* after the start; nothing orders this write with the worker's reads
SetMeasurement ==
    /\ ret = "ok"
    /\ \E m \in Renames :
          /\ heap[handle.config].Measurement # m
          /\ heap' = [heap EXCEPT ![handle.config].Measurement = m]
          /\ held' = held \cup {m}
    /\ UNCHANGED <<heap0, arg, next, resolutions>>
    /\ UNCHANGED <<pinged, ret, handle, coll, workerPc, ctxDone, atCancel, fired,
                   tickBuf, dropped, stalledFor, taken, writes, inflight,
                   failed, printlns, fatalns, lastPoint>>

\* one interval passes: the ticker offers a tick, kept only if its channel
\* has room
TickerFire ==
    /\ workerPc \in {"waiting", "publishing"}
    /\ fired < MaxTicks
    /\ fired' = fired + 1
    /\ IF tickBuf < TickerCap
       THEN tickBuf' = tickBuf + 1 /\ dropped' = dropped
       ELSE tickBuf' = tickBuf /\ dropped' = dropped + 1
    /\ stalledFor' = IF workerPc = "publishing" THEN stalledFor + 1 ELSE stalledFor
    /\ UNCHANGED confVars
    /\ UNCHANGED <<pinged, ret, handle, coll, workerPc, ctxDone, atCancel, taken,
                   writes, inflight, failed, printlns, fatalns, lastPoint, held>>

\* one iteration of the loop: leave on the stop signal, or take the tick,
\* sample, and call the registered callback, which reads the Config through
\* the worker's view of memory
CollectorRun ==
    /\ workerPc = "waiting"
    /\ \E pickStop \in BOOLEAN :
          IF stopRequested /\ (pickStop \/ tickBuf = 0)
          THEN /\ workerPc' = "exited"
               /\ UNCHANGED <<tickBuf, taken, writes, inflight, lastPoint,
                              stalledFor>>
          ELSE /\ tickBuf > 0
               /\ \E view \in WorkerViews :
                  LET cb == onNewPoint(handle, view, collectStats(coll))
                      n  == Len(cb.calls)
                  IN  /\ tickBuf' = tickBuf - 1
                      /\ taken' = taken + 1
                      /\ writes' = writes + n
                      /\ inflight' = inflight + n
                      /\ lastPoint' = IF n > 0 THEN cb.calls[n] ELSE lastPoint
                      /\ workerPc' = IF cb.wait /\ n > 0 THEN "publishing"
                                     ELSE "waiting"
                      /\ stalledFor' = 0
    /\ UNCHANGED confVars
    /\ UNCHANGED <<pinged, ret, handle, coll, ctxDone, atCancel, fired, dropped,
                   failed, printlns, fatalns, held>>

\* a sink write call returns, with success or failure; the callback reacts
\* as onNewPoint says and returns to the loop
WritePointReturn ==
    /\ inflight > 0
    /\ \E outcome \in {"ok", "fail"} :
          LET cb    == onNewPoint(handle, heap, collectStats(coll))
              react == IF outcome = "fail" THEN cb.onError ELSE NoReaction
              again == IF react.retry THEN 1 ELSE 0
              left  == inflight - 1 + again
          IN  /\ failed' = IF outcome = "fail"
                           THEN Append(failed, handle.logger) ELSE failed
              /\ printlns' = IF react.println /\ handle.logger # "nil"
                             THEN printlns + 1 ELSE printlns
              /\ fatalns' = IF react.fatalln /\ handle.logger # "nil"
                            THEN fatalns + 1 ELSE fatalns
              /\ writes' = writes + again
              /\ inflight' = left
              /\ workerPc' = IF react.fatalln /\ handle.logger # "nil"
                             THEN "dead"
                             ELSE IF workerPc = "publishing" /\ left = 0
                                  THEN "waiting" ELSE workerPc
    /\ UNCHANGED confVars
    /\ UNCHANGED <<pinged, ret, handle, coll, ctxDone, atCancel, fired, tickBuf,
                   dropped, stalledFor, taken, lastPoint, held>>

Next ==
    \/ RunCollector
    \/ Logger
    \/ Cancel
    \/ SetMeasurement
    \/ TickerFire
    \/ CollectorRun
    \/ WritePointReturn

Spec == Init /\ [][Next]_vars

NextConfig == Resolve

SpecConfig == InitConfig /\ [][NextConfig]_vars

-----------------------------------------------------------------------------
(* Properties *)

\* the object a logged resolution worked on, before and after
Pre(r) == r.pre[r.out]
Post(r) == r.post[r.out]

\* C1: once the context passed to RunCollector is cancelled the worker ends
\* within one interval and issues no sink write afterwards: no write is
\* issued once two ticker periods have passed since the cancellation.
C1_NoWriteAfterCancel ==
    [][(ctxDone /\ fired >= atCancel.fired + 2) => writes' = writes]_vars

\* C2: a failing sink write never stops the loop: when every write that has
\* returned has failed, the write attempts equal the ticks taken and the
\* pipeline is Running.
C2_FailingWritesKeepTicking ==
    (ret = "ok" /\ Len(failed) = writes - inflight)
        => (writes = taken /\ State = "Running")

C2_Witness ==
    /\ taken = 3 /\ writes = 3 /\ Len(failed) = 3 /\ State = "Running"

\* C3: when the readiness check fails RunCollector returns an error and no
\* handle, starts no worker, and no tick or sink write ever happens.
C3_NotReadyNeverStarts ==
    pinged = "err"
        => /\ ret = "error" /\ handle = NoHandle /\ coll = NoCollector
           /\ workerPc = "none"
           /\ fired = 0 /\ taken = 0 /\ writes = 0 /\ inflight = 0
           /\ lastPoint = NoPoint

C3_Witness == pinged = "err" /\ ret = "error" /\ ctxDone

\* C4: ticks never overlap and never burst: at most one publish is in flight,
\* at most one tick waits, the ticks that fell inside a stalled publish beyond
\* the waiting one are dropped, and every write accounts for one elapsed
\* interval that was neither dropped nor is still waiting.
C4_NoOverlapNoBurst ==
    /\ inflight <= 1
    /\ tickBuf <= 1
    /\ writes = fired - dropped - tickBuf
    /\ (workerPc = "publishing" /\ stalledFor >= 1)
          => (tickBuf = 1 /\ dropped >= stalledFor - 1)

C4_Witness ==
    /\ fired = 3 /\ dropped = 1 /\ stalledFor = 0
    /\ writes = 2 /\ inflight = 0 /\ tickBuf = 0

\* C5: every tick of a running pipeline results in exactly one sink write
\* call: a step that takes a tick issues one write, and no other step issues
\* any.
C5_OneWritePerTick ==
    [][/\ (taken' = taken + 1) => (writes' = writes + 1)
       /\ (writes' # writes) => (taken' = taken + 1)]_vars

C5_Witness ==
    /\ taken = 3 /\ writes = 3 /\ inflight = 0 /\ Len(failed) = 1
    /\ lastPoint.fields = {}

\* C6: each failed sink write is reported once through Println of the logger
\* installed on the handle (nothing is reported when none is installed), the
\* point is not written again, and the loop goes on.
C6_FailureLoggedOnce ==
    /\ printlns = Cardinality({i \in 1..Len(failed) : failed[i] # "nil"})
    /\ writes = taken
    /\ fatalns = 0

\* C7: resolution is idempotent: a resolution applied to the result of a
\* resolution changes no field of any config and returns the same config.
C7_ResolveIdempotent ==
    \A i \in 2..Len(resolutions) :
        /\ resolutions[i].in = resolutions[i - 1].out
        /\ resolutions[i].pre = resolutions[i - 1].post
        /\ resolutions[i].post = resolutions[i].pre
        /\ resolutions[i].out = resolutions[i].in

C7_Witness ==
    /\ Len(resolutions) = 2
    /\ Pre(resolutions[1]).Measurement = ""
    /\ ~resolutions[1].host.err /\ resolutions[2].host.err
    /\ heap # heap0

\* C8: after resolution the interval is strictly positive and the measurement
\* name is non-empty, for every input config.
C8_ResolvedPositiveAndNamed ==
    \A i \in 1..Len(resolutions) :
        /\ Post(resolutions[i]).CollectionInterval > 0
        /\ Post(resolutions[i]).Measurement # ""

\* C9: resolution yields the default interval of 10 seconds for an unset
\* interval and preserves an explicit positive one, and the collector's
\* PauseDur is the resolved value.
C9_IntervalResolved ==
    /\ \A i \in 1..Len(resolutions) :
          /\ Pre(resolutions[i]).CollectionInterval = 0
                => Post(resolutions[i]).CollectionInterval = 10 * 1000
          /\ Pre(resolutions[i]).CollectionInterval > 0
                => Post(resolutions[i]).CollectionInterval
                      = Pre(resolutions[i]).CollectionInterval
    /\ ret = "ok" => coll.PauseDur = Post(resolutions[1]).CollectionInterval

C9_Witness ==
    /\ ret = "ok" /\ arg = "caller"
    /\ heap0["caller"].CollectionInterval = 50
    /\ coll.PauseDur = 50 /\ taken >= 1

\* C10: the defaulting rules are independent: each of host, organization,
\* bucket, measurement and interval becomes its default exactly when it was
\* at its zero value and is otherwise unchanged; token, disable flags and
\* every other config object are unchanged.
C10_DefaultsIndependent ==
    \A i \in 1..Len(resolutions) :
        LET r    == resolutions[i]
            pre  == Pre(r)
            post == Post(r)
            name == defaultMeasurement \o "."
                       \o (IF r.host.err THEN "unknown" ELSE r.host.hn)
        IN  /\ post.Host = IF pre.Host = "" THEN defaultHost ELSE pre.Host
            /\ post.Org = IF pre.Org = "" THEN defaultOrg ELSE pre.Org
            /\ post.Bucket = IF pre.Bucket = "" THEN defaultBucket ELSE pre.Bucket
            /\ post.Measurement
                  = IF pre.Measurement = "" THEN name ELSE pre.Measurement
            /\ post.CollectionInterval
                  = IF pre.CollectionInterval = 0
                    THEN defaultCollectionInterval ELSE pre.CollectionInterval
            /\ post.Token = pre.Token
            /\ post.DisableCpu = pre.DisableCpu
            /\ post.DisableMem = pre.DisableMem
            /\ post.DisableGc = pre.DisableGc
            /\ \A a \in Addrs \ {r.out} : r.post[a] = r.pre[a]

C10_Witness ==
    /\ Len(resolutions) = 1 /\ arg = "caller"
    /\ heap0["caller"].Host = "influx:9999" /\ heap["caller"].Host = "influx:9999"
    /\ heap0["caller"].Org = "" /\ heap["caller"].Org = defaultOrg
    /\ heap0["caller"].CollectionInterval = 50
    /\ heap["caller"].CollectionInterval = 50
    /\ heap0["caller"].DisableMem /\ heap["caller"].DisableMem

\* the config object RunCollector worked on, as the caller built it
Given == heap0[resolutions[1].out]

\* C11: resolution never fails because the host identity lookup fails: with
\* the measurement unset it becomes the base name followed by ".unknown" when
\* the lookup errors and by "." and the hostname otherwise, and in both cases
\* a config and no error are returned.
C11_HostnameNeverFails ==
    \A i \in 1..Len(resolutions) :
        /\ resolutions[i].err = "nil"
        /\ resolutions[i].out \in Addrs
        /\ Pre(resolutions[i]).Measurement = ""
              => Post(resolutions[i]).Measurement
                    = IF resolutions[i].host.err
                      THEN "go.runtime.unknown"
                      ELSE "go.runtime." \o resolutions[i].host.hn

C11_Witness ==
    /\ Len(resolutions) = 1
    /\ Pre(resolutions[1]).Measurement = ""
    /\ resolutions[1].host.err
    /\ resolutions[1].err = "nil"
    /\ heap[next].Measurement = "go.runtime.unknown"

\* C12: each metric group is enabled in the started collector exactly when
\* its disable flag in the config is false; a config that sets no flag starts
\* a collector with all three groups enabled.
C12_GroupsFollowFlags ==
    ret = "ok"
        => /\ coll.EnableCPU = ~Given.DisableCpu
           /\ coll.EnableMem = ~Given.DisableMem
           /\ coll.EnableGC = ~Given.DisableGc
           /\ (~Given.DisableCpu /\ ~Given.DisableMem /\ ~Given.DisableGc)
                 => (coll.EnableCPU /\ coll.EnableMem /\ coll.EnableGC)

C12_Witness ==
    /\ ret = "ok" /\ arg = "caller"
    /\ Given.DisableMem /\ ~Given.DisableCpu /\ ~Given.DisableGc
    /\ ~coll.EnableMem /\ coll.EnableCPU /\ coll.EnableGC

\* C13: when the Memory group is disabled no published point contains a GC
\* field, even if the GC disable flag is false.
C13_NoGcWithoutMem ==
    (ret = "ok" /\ Given.DisableMem /\ lastPoint # NoPoint)
        => lastPoint.fields \cap GroupFields("gc") = {}

C13_Witness ==
    /\ ret = "ok" /\ Given.DisableMem /\ ~Given.DisableGc /\ ~Given.DisableCpu
    /\ writes = 2 /\ lastPoint # NoPoint
    /\ lastPoint.fields = GroupFields("cpu")

\* the groups whose disable flag is false
FlagGroups ==
    (IF Given.DisableCpu THEN {} ELSE {"cpu"})
    \cup (IF Given.DisableMem THEN {} ELSE {"mem"})
    \cup (IF Given.DisableGc THEN {} ELSE {"gc"})

\* the groups that are sampled: GC counts only together with Memory
SampledGroups ==
    IF Given.DisableMem THEN FlagGroups \ {"gc"} ELSE FlagGroups

\* C14 as stated: for every combination of the three flags each tick produces
\* a point whose field keys are exactly the union of the metric names of the
\* groups whose flag enables them, and the point is published also when that
\* set is empty.
C14_FieldsOfFlagGroups ==
    ret = "ok"
        => /\ writes = taken
           /\ lastPoint # NoPoint
                 => lastPoint.fields = UNION {GroupFields(g) : g \in FlagGroups}

\* C14 amended: the field keys are exactly the union of the metric names of
\* the enabled groups, the GC group counting as enabled only when Memory is
\* enabled too; every tick publishes a point, also when that set is empty.
C14_FieldsOfSampledGroups ==
    ret = "ok"
        => /\ writes = taken
           /\ lastPoint # NoPoint
                 => lastPoint.fields = UNION {GroupFields(g) : g \in SampledGroups}

C14_Witness ==
    /\ ret = "ok"
    /\ Given.DisableCpu /\ Given.DisableMem /\ Given.DisableGc
    /\ taken = 2 /\ writes = 2 /\ lastPoint # NoPoint /\ lastPoint.fields = {}

\* C15: starting with an absent config uses no shared mutable package-level
\* state: resolving nil modifies no package-level variable and does not hand
\* out the package's DefaultConfig object.
C15_NilUsesNoPackageState ==
    \A i \in 1..Len(resolutions) :
        resolutions[i].in = "nil"
            => /\ resolutions[i].post["DefaultConfig"]
                     = resolutions[i].pre["DefaultConfig"]
               /\ resolutions[i].out # "DefaultConfig"
               /\ ret = "ok" => handle.config # "DefaultConfig"

\* C16: the lifecycle only moves forward: Running is entered only from
\* Created by a start whose readiness check succeeded, Stopped is entered only
\* from Running with the context cancelled, Created is never re-entered, and
\* a Stopped pipeline stays Stopped and neither ticks nor writes.
C16_LifecycleForward ==
    [][/\ (State' = "Running" /\ State # "Running")
             => (State = "Created" /\ ret' = "ok" /\ pinged' = "ok")
       /\ (State' = "Stopped" /\ State # "Stopped")
             => (State = "Running" /\ ctxDone)
       /\ (State' = "Created") => (State = "Created")
       /\ (State = "Stopped")
             => (State' = "Stopped" /\ taken' = taken /\ writes' = writes)]_vars

C16_Witness ==
    /\ State = "Running" /\ pinged = "ok"
    /\ taken = 2 /\ Len(failed) = 2 /\ inflight = 0 /\ ~ctxDone

\* the object RunCollector resolves: the caller's, DefaultConfig for nil
Target == IF arg = "nil" THEN "DefaultConfig" ELSE arg

\* the step is RunCollector returning, with or without error, having written
\* the defaults into the caller's own object, which the handle keeps
ResolvedInPlace ==
    (ret = "pending" /\ ret' # "pending")
        => /\ resolutions'[1].out = Target
           /\ heap'[Target] = Post(resolutions'[1])
           /\ heap'[Target].Org # "" /\ heap'[Target].Bucket # ""
           /\ heap'[Target].Host # "" /\ heap'[Target].Measurement # ""
           /\ heap'[Target].CollectionInterval # 0
           /\ \A a \in Addrs \ {Target} : heap'[a] = heap[a]
           /\ ret' = "ok" => handle'.config = Target

====
